---- MODULE Spec2Model ----
(***************************************************************************)
(* Model of src/server.js: the Express handlers of the Personal Task       *)
(* Manager over one in-memory SQLite connection with two tables, tasks and *)
(* tags.  A database statement is one atomic step.  The two async task     *)
(* handlers (POST /api/tasks, PUT /api/tasks/:id) take two steps, the      *)
(* SELECT of getExistingTags and the INSERT/UPDATE, and any other          *)
(* statement may run between them.                                         *)
(***************************************************************************)
EXTENDS Integers, Sequences, FiniteSets, Bags, TLC

VARIABLES
  tasks,      \* rows of table tasks
  tags,       \* rows of table tags
  taskSeq,    \* sqlite_sequence.seq of tasks (AUTOINCREMENT)
  tagSeq,     \* sqlite_sequence.seq of tags
  pending,    \* bag of task handlers suspended at `await getExistingTags()`
  last,       \* the step taken last: request, what it read, its response
  taskIdLog,  \* ids answered by POST /api/tasks, in order
  tagIdLog,   \* ids answered by POST /api/tags, in order
  served,     \* steps of request handlers taken so far
  fReq        \* the `tags` field of the request under study (tag filter runs)

vars == <<tasks, tags, taskSeq, tagSeq, pending, last, taskIdLog, tagIdLog,
          served, fReq>>


-----------------------------------------------------------------------------
(* Bounds *)

\* successful INSERTs into tasks
MaxTaskRows == 2
\* successful INSERTs into tags
MaxTagRows == 2
\* task handlers suspended between their tag read and their write
MaxInFlight == 1
\* length of the requested tags array in the tag filter runs
MaxLen == 3
\* steps of request handlers in one run
MaxSteps == 6

-----------------------------------------------------------------------------
(* JavaScript values of a request body, and SQLite values of a column *)

Undefined == [t |-> "undefined"]
Str(s) == [t |-> "string", v |-> s]
Num(n) == [t |-> "number", v |-> n]
Bool(b) == [t |-> "boolean", v |-> b]
Arr(a) == [t |-> "array", v |-> a]
JsNull == [t |-> "null"]

SqlNull == [t |-> "NULL"]
SqlInt(n) == [t |-> "INTEGER", v |-> n]
SqlText(s) == [t |-> "TEXT", v |-> s]

\* JavaScript truthiness, as used by `!title`, `completed ? 1 : 0`, `x || y`
Truthy(x) ==
  CASE x.t = "undefined" -> FALSE
    [] x.t = "null" -> FALSE
    [] x.t = "boolean" -> x.v
    [] x.t = "number" -> x.v # 0
    [] x.t = "string" -> x.v # ""
    [] OTHER -> TRUE

\* a || b
OrElse(a, b) == IF Truthy(a) THEN a ELSE b

\* the value sqlite3 binds to a `?` for a JavaScript value
Bind(x) ==
  CASE x.t = "undefined" -> SqlNull
    [] x.t = "null" -> SqlNull
    [] x.t = "boolean" -> SqlInt(IF x.v THEN 1 ELSE 0)
    [] x.t = "number" -> SqlInt(x.v)
    [] x.t = "string" -> SqlText(x.v)

\* decimal text of the integers the model binds to a TEXT column
Decimal(n) ==
  CASE n = 0 -> "0" [] n = 1 -> "1" [] n = 2 -> "2" [] n = 7 -> "7"

\* a value stored in a column declared TEXT
TextAffinity(x) == IF x.t = "INTEGER" THEN SqlText(Decimal(x.v)) ELSE x

\* the JavaScript value sqlite3 gives for a column value of a fetched row
Fetch(x) ==
  CASE x.t = "NULL" -> JsNull
    [] x.t = "INTEGER" -> Num(x.v)
    [] x.t = "TEXT" -> Str(x.v)

Max(a, b) == IF a >= b THEN a ELSE b

MaxOf(S) == IF S = {} THEN 0 ELSE CHOOSE m \in S : \A n \in S : n <= m

\* a set of rows as the sequence `SELECT *` yields, in rowid order
RECURSIVE InIdOrder(_)
InIdOrder(rows) ==
  IF rows = {} THEN <<>>
  ELSE LET r == CHOOSE x \in rows : \A y \in rows : x.id <= y.id
       IN  <<r>> \o InIdOrder(rows \ {r})

-----------------------------------------------------------------------------
(* Schema *)

\* INTEGER PRIMARY KEY without AUTOINCREMENT: above the rowids now in the table
NoAutoincrementRowid(seq, rows) == MaxOf({r.id : r \in rows}) + 1

\* INTEGER PRIMARY KEY AUTOINCREMENT: above every rowid ever given
NextRowid(seq, rows) == Max(seq, MaxOf({r.id : r \in rows})) + 1

\* a tags table whose name column is not UNIQUE
NoUniqueTagConstraint(others, name, color) ==
  \/ name = SqlNull
  \/ color = SqlNull

\* tags: name TEXT NOT NULL UNIQUE, color TEXT NOT NULL; `others` are the
\* rows the written row is compared with
TagConstraintFails(others, name, color) ==
  \/ name = SqlNull
  \/ color = SqlNull
  \/ \E r \in others : r.name = name

\* tasks: title TEXT NOT NULL, creationDate TEXT NOT NULL
TaskConstraintFails(title, creationDate) ==
  \/ title = SqlNull
  \/ creationDate = SqlNull

-----------------------------------------------------------------------------
(* Requests *)

TagBodies ==
  { [name |-> Str("home"), color |-> Str("#00ff00")],
    [name |-> Str("work"), color |-> Str("#ff0000")],
    [name |-> Str("home"), color |-> Str("#ff0000")],
    [name |-> Undefined,   color |-> Str("#ff0000")] }

Timestamps == {"2026-11-06T09:00:00.000Z"}

Omitted == [title |-> Undefined, completed |-> Undefined, priority |-> Undefined,
            deadline |-> Undefined, creationDate |-> Undefined, tags |-> Undefined]

TaskBodies ==
  { [Omitted EXCEPT !.title = Str("Buy milk"), !.tags = Arr(<<"home", "ghost">>)],
    [title |-> Str("Pay rent"), completed |-> Bool(TRUE), priority |-> Num(2),
     deadline |-> Str("2026-12-01"), creationDate |-> Str("2026-11-01"),
     tags |-> Arr(<<"work", "work">>)],
    [Omitted EXCEPT !.completed = Bool(FALSE), !.priority = Num(0)],
    [Omitted EXCEPT !.title = Num(7), !.creationDate = Str("")],
    [Omitted EXCEPT !.title = Str("Call"), !.tags = Str("home")] }

\* the ids a request names: every id answered so far, and one never answered
\* (req.params.id is text; SQLite compares it with the INTEGER rowid by value)
TagIdParams == 1 .. (tagSeq + 1)
TaskIdParams == 1 .. (taskSeq + 1)

NoBody == [none |-> TRUE]
NoResp == [none |-> TRUE]
ErrorBody(msg) == [error |-> msg]

\* a callback that never looks at this.changes
ChangesNeverChecked(changes) == FALSE

\* if (this.changes === 0) in the callbacks of UPDATE and DELETE
NoRowChanged(changes) == changes = 0

Step(op, id, body, didRead, existing, status, resp) ==
  [op |-> op, id |-> id, body |-> body, readTags |-> didRead,
   existing |-> existing, status |-> status, resp |-> resp]

-----------------------------------------------------------------------------
(* Tag Store *)

\* GET /api/tags
ListTags ==
  /\ last' = Step("listTags", 0, NoBody, FALSE, {}, 200,
                  [tags |-> InIdOrder({[id |-> r.id, name |-> Fetch(r.name),
                                        color |-> Fetch(r.color)] : r \in tags})])
  /\ UNCHANGED <<tasks, tags, taskSeq, tagSeq, pending, taskIdLog, tagIdLog, fReq>>

\* POST /api/tags
CreateTag(b) ==
  LET name == TextAffinity(Bind(b.name))
      color == TextAffinity(Bind(b.color))
      id == NextRowid(tagSeq, tags)
  IN  IF TagConstraintFails(tags, name, color)
      THEN /\ last' = Step("createTag", 0, b, FALSE, {}, 500,
                           ErrorBody("Internal server error"))
           /\ UNCHANGED <<tasks, tags, taskSeq, tagSeq, pending, taskIdLog, tagIdLog, fReq>>
      ELSE /\ tagSeq < MaxTagRows
           /\ tags' = tags \cup {[id |-> id, name |-> name, color |-> color]}
           /\ tagSeq' = id
           /\ tagIdLog' = Append(tagIdLog, id)
           /\ last' = Step("createTag", 0, b, FALSE, {}, 201,
                           [id |-> id, name |-> b.name, color |-> b.color])
           /\ UNCHANGED <<tasks, taskSeq, pending, taskIdLog, fReq>>

\* an update that counts the updated row itself among the rows its name
\* must differ from
UpdateTagAgainstAll(id, b) ==
  LET name == TextAffinity(Bind(b.name))
      color == TextAffinity(Bind(b.color))
      hit == {r \in tags : r.id = id}
  IN  IF hit # {} /\ TagConstraintFails(tags, name, color)
      THEN /\ last' = Step("updateTag", id, b, FALSE, {}, 500,
                           ErrorBody("Internal server error"))
           /\ UNCHANGED <<tasks, tags, taskSeq, tagSeq, pending, taskIdLog, tagIdLog, fReq>>
      ELSE /\ tags' = (tags \ hit) \cup
                      {[id |-> r.id, name |-> name, color |-> color] : r \in hit}
           /\ last' = IF NoRowChanged(Cardinality(hit))
                      THEN Step("updateTag", id, b, FALSE, {}, 404,
                                ErrorBody("Tag not found"))
                      ELSE Step("updateTag", id, b, FALSE, {}, 200,
                                [changes |-> Cardinality(hit)])
           /\ UNCHANGED <<tasks, taskSeq, tagSeq, pending, taskIdLog, tagIdLog, fReq>>

\* PUT /api/tags/:id
UpdateTag(id, b) ==
  LET name == TextAffinity(Bind(b.name))
      color == TextAffinity(Bind(b.color))
      hit == {r \in tags : r.id = id}
  IN  IF hit # {} /\ TagConstraintFails(tags \ hit, name, color)
      THEN /\ last' = Step("updateTag", id, b, FALSE, {}, 500,
                           ErrorBody("Internal server error"))
           /\ UNCHANGED <<tasks, tags, taskSeq, tagSeq, pending, taskIdLog, tagIdLog, fReq>>
      ELSE /\ tags' = (tags \ hit) \cup
                      {[id |-> r.id, name |-> name, color |-> color] : r \in hit}
           /\ last' = IF NoRowChanged(Cardinality(hit))
                      THEN Step("updateTag", id, b, FALSE, {}, 404,
                                ErrorBody("Tag not found"))
                      ELSE Step("updateTag", id, b, FALSE, {}, 200,
                                [changes |-> Cardinality(hit)])
           /\ UNCHANGED <<tasks, taskSeq, tagSeq, pending, taskIdLog, tagIdLog, fReq>>

\* a delete that also clears the tags column of every task
DeleteTagCascade(id) ==
  LET hit == {r \in tags : r.id = id}
  IN  /\ tags' = tags \ hit
      /\ tasks' = IF hit = {} THEN tasks
                  ELSE {[r EXCEPT !.tags = SqlNull] : r \in tasks}
      /\ last' = IF NoRowChanged(Cardinality(hit))
                 THEN Step("deleteTag", id, NoBody, FALSE, {}, 404,
                           ErrorBody("Tag not found"))
                 ELSE Step("deleteTag", id, NoBody, FALSE, {}, 200,
                           [changes |-> Cardinality(hit)])
      /\ UNCHANGED <<taskSeq, tagSeq, pending, taskIdLog, tagIdLog, fReq>>

\* DELETE /api/tags/:id
DeleteTag(id) ==
  LET hit == {r \in tags : r.id = id}
  IN  /\ tags' = tags \ hit
      /\ last' = IF NoRowChanged(Cardinality(hit))
                 THEN Step("deleteTag", id, NoBody, FALSE, {}, 404,
                           ErrorBody("Tag not found"))
                 ELSE Step("deleteTag", id, NoBody, FALSE, {}, 200,
                           [changes |-> Cardinality(hit)])
      /\ UNCHANGED <<tasks, taskSeq, tagSeq, pending, taskIdLog, tagIdLog, fReq>>

-----------------------------------------------------------------------------
(* JSON text of the tags column, as a sequence of tokens *)

Tok(k) == [k |-> k]
StrTok(s) == [k |-> "string", s |-> s]

RECURSIVE JSONItems(_)
JSONItems(a) ==
  IF a = <<>> THEN <<>>
  ELSE IF Len(a) = 1 THEN <<StrTok(a[1])>>
  ELSE <<StrTok(a[1]), Tok(",")>> \o JSONItems(Tail(a))

\* validTags.join(','): the items without the brackets
JoinedItems(a) == JSONItems(a)

\* JSON.stringify of an array of strings
JSONStringify(a) == <<Tok("[")>> \o JSONItems(a) \o <<Tok("]")>>

\* the items between the brackets: string (, string)*
RECURSIVE ParseItems(_)
ParseItems(toks) ==
  IF toks = <<>> \/ toks[1].k # "string" THEN [ok |-> FALSE]
  ELSE IF Len(toks) = 1 THEN [ok |-> TRUE, v |-> <<toks[1].s>>]
  ELSE IF toks[2].k # "," THEN [ok |-> FALSE]
  ELSE LET rest == ParseItems(SubSeq(toks, 3, Len(toks)))
       IN  IF rest.ok THEN [ok |-> TRUE, v |-> <<toks[1].s>> \o rest.v]
           ELSE [ok |-> FALSE]

\* JSON.parse of a text; ok = FALSE where it throws a SyntaxError
JSONParse(toks) ==
  IF Len(toks) < 2 \/ toks[1].k # "[" \/ toks[Len(toks)].k # "]"
  THEN [ok |-> FALSE]
  ELSE IF Len(toks) = 2 THEN [ok |-> TRUE, v |-> <<>>]
  ELSE ParseItems(SubSeq(toks, 2, Len(toks) - 1))

-----------------------------------------------------------------------------
(* Task Store *)

\* getExistingTags: rows.map(row => row.name)
getExistingTags == {Fetch(r.name).v : r \in tags}

\* a filter that also drops the repeated occurrences of a name
RECURSIVE FilterDistinct(_, _)
FilterDistinct(a, existingTags) ==
  IF a = <<>> THEN <<>>
  ELSE (IF a[1] \in existingTags /\ \A i \in 2 .. Len(a) : a[i] # a[1]
        THEN <<a[1]>> ELSE <<>>)
       \o FilterDistinct(Tail(a), existingTags)

\* a.filter(tag => existingTags.includes(tag))
RECURSIVE ArrayFilter(_, _)
ArrayFilter(a, existingTags) ==
  IF a = <<>> THEN <<>>
  ELSE (IF a[1] \in existingTags THEN <<a[1]>> ELSE <<>>)
       \o ArrayFilter(Tail(a), existingTags)

\* (tags || []).filter throws a TypeError: the value has no filter method
FilterThrows(tagsField) == OrElse(tagsField, Arr(<<>>)).t # "array"

\* the requested tags stored as they come
UnfilteredTags(tagsField, existingTags) == OrElse(tagsField, Arr(<<>>)).v

\* const validTags = (tags || []).filter(tag => existingTags.includes(tag))
validTags(tagsField, existingTags) ==
  ArrayFilter(OrElse(tagsField, Arr(<<>>)).v, existingTags)

\* if (!title || typeof title !== 'string')
InvalidTitle(title) == ~Truthy(title) \/ title.t # "string"

\* the row of a task as GET /api/tasks answers it
TaskJson(r) ==
  [id |-> r.id, title |-> Fetch(r.title), completed |-> Fetch(r.completed),
   priority |-> Fetch(r.priority), deadline |-> Fetch(r.deadline),
   creationDate |-> Fetch(r.creationDate),
   tags |-> IF r.tags.t = "NULL" THEN JsNull
            ELSE LET parsed == JSONParse(r.tags.v)
                 IN  IF parsed.ok THEN Arr(parsed.v) ELSE Arr(<<>>)]

\* what GET /api/tasks answers in the current state
TaskList == InIdOrder({TaskJson(r) : r \in tasks})

\* GET /api/tasks
ListTasks ==
  /\ last' = Step("listTasks", 0, NoBody, FALSE, {}, 200, [tasks |-> TaskList])
  /\ UNCHANGED <<tasks, tags, taskSeq, tagSeq, pending, taskIdLog, tagIdLog, fReq>>

Suspended(op, id, b, existingTags) ==
  [op |-> op, id |-> id, body |-> b, existing |-> existingTags]

Creating == {p \in BagToSet(pending) : p.op = "createTask"}

InFlightCreates == BagCardinality([p \in Creating |-> pending[p]])

\* POST /api/tasks up to `await getExistingTags()`: the SELECT has run
CreateTaskRead(b) ==
  /\ BagCardinality(pending) < MaxInFlight
  /\ taskSeq + InFlightCreates < MaxTaskRows
  /\ pending' = pending (+) SetToBag({Suspended("createTask", 0, b, getExistingTags)})
  /\ last' = Step("getExistingTags", 0, NoBody, TRUE, getExistingTags, 0, NoResp)
  /\ UNCHANGED <<tasks, tags, taskSeq, tagSeq, taskIdLog, tagIdLog, fReq>>

\* POST /api/tasks from the resumption to the response: filter and INSERT
CreateTaskWrite(p, now) ==
  LET b == p.body
      title == TextAffinity(Bind(b.title))
      completed == SqlInt(IF Truthy(b.completed) THEN 1 ELSE 0)
      priority == Bind(OrElse(b.priority, Num(0)))
      deadline == TextAffinity(Bind(b.deadline))
      creationDate == TextAffinity(Bind(OrElse(b.creationDate, Str(now))))
      id == NextRowid(taskSeq, tasks)
  IN  /\ p \in BagToSet(pending)
      /\ p.op = "createTask"
      /\ pending' = pending (-) SetToBag({p})
      /\ IF FilterThrows(b.tags) \/ TaskConstraintFails(title, creationDate)
         THEN /\ last' = Step("createTask", 0, b, TRUE, p.existing, 500,
                              ErrorBody("Internal server error"))
              /\ UNCHANGED <<tasks, tags, taskSeq, tagSeq, taskIdLog, tagIdLog, fReq>>
         ELSE /\ tasks' = tasks \cup
                   {[id |-> id, title |-> title, completed |-> completed,
                     priority |-> priority, deadline |-> deadline,
                     creationDate |-> creationDate,
                     tags |-> SqlText(JSONStringify(validTags(b.tags, p.existing)))]}
              /\ taskSeq' = id
              /\ taskIdLog' = Append(taskIdLog, id)
              /\ last' = Step("createTask", 0, b, TRUE, p.existing, 201, [id |-> id])
              /\ UNCHANGED <<tags, tagSeq, tagIdLog, fReq>>

\* UPDATE ... SET with COALESCE(?, deadline): an omitted deadline is kept
UpdatedRowKeepsDeadline(r, b, existingTags) ==
  [id |-> r.id,
   title |-> TextAffinity(Bind(b.title)),
   completed |-> SqlInt(IF Truthy(b.completed) THEN 1 ELSE 0),
   priority |-> Bind(OrElse(b.priority, Num(0))),
   deadline |-> IF b.deadline = Undefined THEN r.deadline
                ELSE TextAffinity(Bind(b.deadline)),
   creationDate |-> r.creationDate,
   tags |-> SqlText(JSONStringify(validTags(b.tags, existingTags)))]

\* UPDATE tasks SET title = ?, completed = ?, priority = ?, deadline = ?, tags = ?
UpdatedRow(r, b, existingTags) ==
  [id |-> r.id,
   title |-> TextAffinity(Bind(b.title)),
   completed |-> SqlInt(IF Truthy(b.completed) THEN 1 ELSE 0),
   priority |-> Bind(OrElse(b.priority, Num(0))),
   deadline |-> TextAffinity(Bind(b.deadline)),
   creationDate |-> r.creationDate,
   tags |-> SqlText(JSONStringify(validTags(b.tags, existingTags)))]

\* a handler that reads the tags before it validates the title
UpdateTaskReadsFirst(id, b) ==
  IF InvalidTitle(b.title)
  THEN /\ last' = Step("updateTask", id, b, TRUE, getExistingTags, 400,
                       ErrorBody("Invalid title"))
       /\ UNCHANGED <<tasks, tags, taskSeq, tagSeq, pending, taskIdLog, tagIdLog, fReq>>
  ELSE /\ BagCardinality(pending) < MaxInFlight
       /\ pending' = pending (+) SetToBag({Suspended("updateTask", id, b, getExistingTags)})
       /\ last' = Step("getExistingTags", 0, NoBody, TRUE, getExistingTags, 0, NoResp)
       /\ UNCHANGED <<tasks, tags, taskSeq, tagSeq, taskIdLog, tagIdLog, fReq>>

\* PUT /api/tasks/:id up to `await getExistingTags()`, or its 400
UpdateTaskRead(id, b) ==
  IF InvalidTitle(b.title)
  THEN /\ last' = Step("updateTask", id, b, FALSE, {}, 400, ErrorBody("Invalid title"))
       /\ UNCHANGED <<tasks, tags, taskSeq, tagSeq, pending, taskIdLog, tagIdLog, fReq>>
  ELSE /\ BagCardinality(pending) < MaxInFlight
       /\ pending' = pending (+) SetToBag({Suspended("updateTask", id, b, getExistingTags)})
       /\ last' = Step("getExistingTags", 0, NoBody, TRUE, getExistingTags, 0, NoResp)
       /\ UNCHANGED <<tasks, tags, taskSeq, tagSeq, taskIdLog, tagIdLog, fReq>>

\* PUT /api/tasks/:id from the resumption to the response: filter and UPDATE
UpdateTaskWrite(p) ==
  LET b == p.body
      hit == {r \in tasks : r.id = p.id}
  IN  /\ p \in BagToSet(pending)
      /\ p.op = "updateTask"
      /\ pending' = pending (-) SetToBag({p})
      /\ IF FilterThrows(b.tags)
         THEN /\ last' = Step("updateTask", p.id, b, TRUE, p.existing, 500,
                              ErrorBody("Internal server error"))
              /\ UNCHANGED <<tasks, tags, taskSeq, tagSeq, taskIdLog, tagIdLog, fReq>>
         ELSE /\ tasks' = (tasks \ hit) \cup
                   {UpdatedRow(r, b, p.existing) : r \in hit}
              /\ last' = IF NoRowChanged(Cardinality(hit))
                         THEN Step("updateTask", p.id, b, TRUE, p.existing, 404,
                                   ErrorBody("Task not found"))
                         ELSE Step("updateTask", p.id, b, TRUE, p.existing, 200,
                                   [changes |-> Cardinality(hit)])
              /\ UNCHANGED <<tags, taskSeq, tagSeq, taskIdLog, tagIdLog, fReq>>

\* DELETE /api/tasks/:id
DeleteTask(id) ==
  LET hit == {r \in tasks : r.id = id}
  IN  /\ tasks' = tasks \ hit
      /\ last' = IF NoRowChanged(Cardinality(hit))
                 THEN Step("deleteTask", id, NoBody, FALSE, {}, 404,
                           ErrorBody("Task not found"))
                 ELSE Step("deleteTask", id, NoBody, FALSE, {}, 200,
                           [changes |-> Cardinality(hit)])
      /\ UNCHANGED <<tags, taskSeq, tagSeq, pending, taskIdLog, tagIdLog, fReq>>

-----------------------------------------------------------------------------

Init ==
  /\ served = 0
  /\ tasks = {}
  /\ tags = {}
  /\ taskSeq = 0
  /\ tagSeq = 0
  /\ pending = EmptyBag
  /\ last = Step("listen", 0, NoBody, FALSE, {}, 0, NoResp)
  /\ taskIdLog = <<>>
  /\ tagIdLog = <<>>
  /\ fReq = Undefined

\* one more step of a handler, within the bound on the steps of a run
Served == served < MaxSteps /\ served' = served + 1

Next ==
  \/ ListTasks /\ Served
  \/ \E b \in TaskBodies : CreateTaskRead(b) /\ Served
  \/ \E p \in BagToSet(pending), now \in Timestamps : CreateTaskWrite(p, now) /\ Served
  \/ \E id \in TaskIdParams, b \in TaskBodies : UpdateTaskRead(id, b) /\ Served
  \/ \E p \in BagToSet(pending) : UpdateTaskWrite(p) /\ Served
  \/ \E id \in TaskIdParams : DeleteTask(id) /\ Served
  \/ ListTags /\ Served
  \/ \E b \in TagBodies : CreateTag(b) /\ Served
  \/ \E id \in TagIdParams, b \in TagBodies : UpdateTag(id, b) /\ Served
  \/ \E id \in TagIdParams : DeleteTag(id) /\ Served

Spec == Init /\ [][Next]_vars

\* the same requests with no bound on the steps of a run
NextUnbounded ==
  \/ ListTasks /\ UNCHANGED served
  \/ \E b \in TaskBodies : CreateTaskRead(b) /\ UNCHANGED served
  \/ \E p \in BagToSet(pending), now \in Timestamps : CreateTaskWrite(p, now) /\ UNCHANGED served
  \/ \E id \in TaskIdParams, b \in TaskBodies : UpdateTaskRead(id, b) /\ UNCHANGED served
  \/ \E p \in BagToSet(pending) : UpdateTaskWrite(p) /\ UNCHANGED served
  \/ \E id \in TaskIdParams : DeleteTask(id) /\ UNCHANGED served
  \/ ListTags /\ UNCHANGED served
  \/ \E b \in TagBodies : CreateTag(b) /\ UNCHANGED served
  \/ \E id \in TagIdParams, b \in TagBodies : UpdateTag(id, b) /\ UNCHANGED served
  \/ \E id \in TagIdParams : DeleteTag(id) /\ UNCHANGED served

SpecUnbounded == Init /\ [][NextUnbounded]_vars

-----------------------------------------------------------------------------
(* Tag filter runs: one task write against a given tags table *)

FilterNames == {"home", "work", "ghost"}

RECURSIVE SeqsUpTo(_, _)
SeqsUpTo(S, n) ==
  IF n = 0 THEN {<<>>}
  ELSE LET shorter == SeqsUpTo(S, n - 1)
       IN  shorter \cup {Append(q, x) : q \in {r \in shorter : Len(r) = n - 1}, x \in S}

\* the request whose tags field is under study
FilterBody == [Omitted EXCEPT !.title = Str("Buy milk"), !.tags = fReq]

\* the rowid of each tag after POST /api/tags of home, work, ghost in this order
CreatedAs(name) == CASE name = "home" -> 1 [] name = "work" -> 2 [] name = "ghost" -> 3

\* tags were created, some deleted again, and one task was created without tags
FilterInit ==
  /\ fReq \in {Undefined} \cup {Arr(q) : q \in SeqsUpTo(FilterNames, MaxLen)}
  /\ \E E \in SUBSET FilterNames :
       tags = {[id |-> CreatedAs(n), name |-> SqlText(n), color |-> SqlText("#00ff00")]
               : n \in E}
  /\ tagSeq = 3
  /\ tagIdLog = <<1, 2, 3>>
  /\ tasks = {[id |-> 1, title |-> SqlText("Buy milk"), completed |-> SqlInt(0),
               priority |-> SqlInt(0), deadline |-> SqlNull,
               creationDate |-> SqlText("2026-11-01"),
               tags |-> SqlText(JSONStringify(<<>>))]}
  /\ taskSeq = 1
  /\ taskIdLog = <<1>>
  /\ pending = EmptyBag
  /\ served = 0
  /\ last = Step("listen", 0, NoBody, FALSE, {}, 0, NoResp)

FilterNext ==
  \/ CreateTaskRead(FilterBody) /\ Served
  \/ \E p \in BagToSet(pending), now \in Timestamps : CreateTaskWrite(p, now) /\ Served
  \/ UpdateTaskRead(1, FilterBody) /\ Served
  \/ \E p \in BagToSet(pending) : UpdateTaskWrite(p) /\ Served

SpecFilter == FilterInit /\ [][FilterNext]_vars

-----------------------------------------------------------------------------
(* Properties *)

\* the tag names a task row stores
StoredNames(r) == JSONParse(r.tags.v).v

Elems(q) == {q[i] : i \in 1 .. Len(q)}

Occurrences(q, x) == Cardinality({i \in 1 .. Len(q) : q[i] = x})

\* the last step was a task INSERT or UPDATE that wrote a row
WroteTask ==
  \/ last.op = "createTask" /\ last.status = 201
  \/ last.op = "updateTask" /\ last.status = 200

WrittenId == IF last.op = "createTask" THEN last.resp.id ELSE last.id

WrittenRows == {r \in tasks : r.id = WrittenId}

\* the requested tags of the last request, [] when the field is omitted
Requested == IF last.body.tags.t = "array" THEN last.body.tags.v ELSE <<>>

KeepIn(q, E) == LET Keep(x) == x \in E IN SelectSeq(q, Keep)

\* C1 as stated: every name a task write stores names a row that is in the
\* tags table when the INSERT/UPDATE is applied, whatever ran between the
\* handler's tag read and its write.
C1_NamesInTableAtWrite ==
  WroteTask =>
    \A r \in WrittenRows : Elems(StoredNames(r)) \subseteq getExistingTags

\* C1 as amended: every name a task write stores was the name of a row of the
\* tags table when the handler's getExistingTags read it, and is one of the
\* requested names.
C1_NamesInTableAtRead ==
  WroteTask =>
    \A r \in WrittenRows :
      Elems(StoredNames(r)) \subseteq (last.existing \cap Elems(Requested))

\* a task was written with a tag that was deleted or renamed after the read
C1_Witness ==
  /\ WroteTask
  /\ \E r \in WrittenRows : ~(Elems(StoredNames(r)) \subseteq getExistingTags)

\* the tasks of GET /api/tasks carrying the id the last POST answered
Listed == {i \in 1 .. Len(TaskList) : TaskList[i].id = last.resp.id}

C3_StoredIsSubsequence ==
  /\ last.op \in {"createTask", "updateTask"} => last.status \in {200, 201}
  /\ WroteTask =>
       \A r \in WrittenRows :
         LET out == StoredNames(r)
         IN  /\ out = KeepIn(Requested, last.existing)
             /\ \A x \in last.existing : Occurrences(out, x) = Occurrences(Requested, x)
             /\ \A x \in Elems(Requested) \ last.existing : Occurrences(out, x) = 0
             /\ fReq = Undefined => out = <<>>
             /\ validTags(Arr(out), last.existing) = out

\* a request naming an existing tag twice and an unknown tag was stored
C3_Witness ==
  /\ WroteTask
  /\ \E x \in last.existing : Occurrences(Requested, x) = 2
  /\ ~(Elems(Requested) \subseteq last.existing)
  /\ \E r \in WrittenRows : Len(StoredNames(r)) = 2

\* PUT or DELETE /api/tasks/:id is answered in this step, on an id that names
\* no row
AnswersAbsentTask ==
  /\ last'.op \in {"updateTask", "deleteTask"}
  /\ ~ \E r \in tasks : r.id = last'.id

\* C4 as stated: on an id that names no task row, PUT answers 404 whatever
\* the body is, and DELETE answers 404.
C4_AbsentAlways404 == [][AnswersAbsentTask => last'.status = 404]_vars

\* C4 as amended: on an id that names no task row, DELETE answers 404, and PUT
\* answers 400 when the title is missing, empty or not a string, 500 when the
\* title is valid and tags is a truthy value that is not an array, and 404
\* otherwise.
C4_AbsentAnswer ==
  [][AnswersAbsentTask =>
       last'.status =
         (IF last'.op = "deleteTask" THEN 404
          ELSE IF InvalidTitle(last'.body.title) THEN 400
          ELSE IF Truthy(last'.body.tags) /\ last'.body.tags.t # "array" THEN 500
          ELSE 404)]_vars

\* a PUT with a valid body on the id of a deleted task was answered 404
C4_Witness ==
  /\ last.op = "updateTask" /\ last.status = 404
  /\ last.id \in Elems(taskIdLog)

NameOf(b) == TextAffinity(Bind(b.name))
ColorOf(b) == TextAffinity(Bind(b.color))

\* C5: no two rows of the tags table have the same name; POST /api/tags with
\* a name already present answers 500 and inserts nothing, so exactly one row
\* has that name afterwards.
C5_TagNamesUnique ==
  [][/\ \A r1, r2 \in tags' : r1.name = r2.name => r1 = r2
     /\ (last'.op = "createTag" /\ \E r \in tags : r.name = NameOf(last'.body)) =>
          /\ last'.status = 500
          /\ tags' = tags
          /\ Cardinality({r \in tags' : r.name = NameOf(last'.body)}) = 1]_vars

\* POST /api/tags with the name of an existing tag was answered 500
C5_Witness ==
  /\ last.op = "createTag" /\ last.status = 500
  /\ \E r \in tags : r.name = NameOf(last.body)

\* C6 as stated: PUT /api/tags/:id with a name and a color on an existing id
\* sets the row's name and color and answers 200 {changes: 1}; on an id that
\* names no row it answers 404; there is no other outcome.
C6_UpdateTagTwoOutcomes ==
  [][(/\ last'.op = "updateTag"
      /\ last'.body.name.t = "string"
      /\ last'.body.color.t = "string") =>
       IF \E r \in tags : r.id = last'.id
       THEN /\ last'.status = 200
            /\ last'.resp = [changes |-> 1]
            /\ [id |-> last'.id, name |-> NameOf(last'.body),
                color |-> ColorOf(last'.body)] \in tags'
       ELSE last'.status = 404]_vars

\* C6 as amended: PUT /api/tags/:id on an existing id, with a name and a color
\* and a name that no other row has, sets that row's name and color, leaves
\* the other rows, and answers 200 {changes: 1}; on an existing id with no
\* name, no color, or the name of another row it answers 500 and changes
\* nothing; on an id that names no row it answers 404 and changes nothing.
C6_UpdateTagOutcomes ==
  [][last'.op = "updateTag" =>
       LET old == {r \in tags : r.id = last'.id}
           name == NameOf(last'.body)
           color == ColorOf(last'.body)
       IN  IF old = {}
           THEN last'.status = 404 /\ tags' = tags
           ELSE IF \/ name = SqlNull
                   \/ color = SqlNull
                   \/ \E r \in tags \ old : r.name = name
           THEN last'.status = 500 /\ tags' = tags
           ELSE /\ last'.status = 200
                /\ last'.resp = [changes |-> 1]
                /\ tags' = (tags \ old) \cup
                           {[id |-> last'.id, name |-> name, color |-> color]}]_vars

\* a tag was given a new color under its own name while another tag exists
C6_Witness ==
  /\ last.op = "updateTag" /\ last.status = 200
  /\ Cardinality(tags) = 2

\* C7: DELETE /api/tags/:id and PUT /api/tags/:id leave the tasks table as it
\* was, a stored tags list that names the deleted or renamed tag included.
C7_TagWritesLeaveTasks ==
  [][last'.op \in {"deleteTag", "updateTag"} =>
       tasks' = tasks /\ taskSeq' = taskSeq]_vars

\* a tag was deleted and a task still stores its name
C7_Witness ==
  /\ last.op = "deleteTag" /\ last.status = 200
  /\ \E r \in tasks : ~(Elems(StoredNames(r)) \subseteq getExistingTags)

\* C8: a successful PUT /api/tasks/:id answers changes = 1 and overwrites
\* title, completed, priority, deadline and tags of the one row with that id
\* from the request (omitted: false, 0, empty, []), and leaves that row's id
\* and creationDate, every other task row and the tags table as they were.
C8_UpdateOverwritesOneRow ==
  [][(last'.op = "updateTask" /\ last'.status = 200) =>
       LET b == last'.body
           old == {r \in tasks : r.id = last'.id}
           new == {r \in tasks' : r.id = last'.id}
       IN  /\ last'.resp = [changes |-> 1]
           /\ Cardinality(old) = 1 /\ Cardinality(new) = 1
           /\ tasks' \ new = tasks \ old
           /\ tags' = tags /\ tagSeq' = tagSeq /\ taskSeq' = taskSeq
           /\ \A o \in old, n \in new :
                /\ n.creationDate = o.creationDate
                /\ n.title = SqlText(b.title.v)
                /\ n.completed = SqlInt(IF b.completed = Bool(TRUE) THEN 1 ELSE 0)
                /\ n.priority = (IF b.priority = Undefined THEN SqlInt(0)
                                 ELSE SqlInt(b.priority.v))
                /\ n.deadline = (IF b.deadline = Undefined THEN SqlNull
                                 ELSE SqlText(b.deadline.v))
                /\ StoredNames(n) = (IF b.tags = Undefined THEN <<>>
                                     ELSE KeepIn(b.tags.v, last'.existing))]_vars

\* a task that had a deadline was updated by a request without one, while
\* another task exists
C8_Witness ==
  /\ last.op = "updateTask" /\ last.status = 200
  /\ last.body.deadline = Undefined
  /\ last.body.completed = Undefined
  /\ Cardinality(tasks) = 2
  /\ \E r \in tasks : r.id = last.id /\ r.creationDate = SqlText("2026-11-01")

\* C9: a request answered 400, 404 or 500 leaves the tasks table and the tags
\* table as they were; the 400 is given for a missing, empty or non-string
\* title of a task update, before the tags table is read.
C9_FailuresChangeNothing ==
  [][last'.status \in {400, 404, 500} =>
       /\ tasks' = tasks /\ tags' = tags
       /\ taskSeq' = taskSeq /\ tagSeq' = tagSeq
       /\ last'.status = 400 =>
            /\ last'.op = "updateTask"
            /\ InvalidTitle(last'.body.title)
            /\ ~last'.readTags
            /\ pending' = pending]_vars

\* a task update without a valid title was answered 400 with rows in both tables
C9_Witness ==
  /\ last.op = "updateTask" /\ last.status = 400
  /\ tasks # {} /\ tags # {}

StrictlyIncreasing(q) == \A i, j \in 1 .. Len(q) : i < j => q[i] < q[j]

\* C10: the id a successful POST /api/tasks answers is greater than every
\* task id answered before, and likewise for POST /api/tags, so the id of a
\* deleted row never comes to name another row.
C10_IdsNeverReused ==
  /\ StrictlyIncreasing(taskIdLog)
  /\ StrictlyIncreasing(tagIdLog)
  /\ \A r \in tasks : r.id \in Elems(taskIdLog)
  /\ \A r \in tags : r.id \in Elems(tagIdLog)

\* a task was created after the task created before it was deleted
C10_Witness ==
  /\ last.op = "createTask" /\ last.status = 201
  /\ Len(taskIdLog) = 2
  /\ {r.id : r \in tasks} = {taskIdLog[2]}

====
